------------------------------ MODULE Spec2Model ------------------------------
(***************************************************************************)
(* Time-window gating of the time-select-capture camera wrapper            *)
(* (timeselectcamera.go) and of the time-select-sync sensor                *)
(* (timesyncsensor.go).                                                    *)
(*                                                                         *)
(* Strings that the code parses are sequences of one-character strings,    *)
(* so that time.Parse is modelled by what it does to the characters.       *)
(* Instants are records [day, sec, nsec, off]: the day since 1970-01-01,    *)
(* the second of that day and the nanosecond of that second, all in UTC,   *)
(* and the fixed offset (seconds east of UTC) of the instant's Location.   *)
(***************************************************************************)
EXTENDS Integers, Sequences, FiniteSets, TLC

VARIABLES cam, rc, img, sen, src, rd, calls, probe

vars == <<cam, rc, img, sen, src, rd, calls, probe>>

-----------------------------------------------------------------------------
(* Characters and numbers                                                  *)

Digits == <<"0", "1", "2", "3", "4", "5", "6", "7", "8", "9">>

IsDigit(c) == \E i \in 1..10 : Digits[i] = c

DigitVal(c) == (CHOOSE i \in 1..10 : Digits[i] = c) - 1

\* The two-character decimal form of n in 0..99.
Fmt2(n) == <<Digits[(n \div 10) + 1], Digits[(n % 10) + 1]>>

\* The four-character decimal form of n in 0..9999.
Fmt4(n) == Fmt2(n \div 100) \o Fmt2(n % 100)

\* The number written by the n (1 or 2) digits of s from position i.
Num(s, i, n) ==
    IF n = 1 THEN DigitVal(s[i]) ELSE DigitVal(s[i]) * 10 + DigitVal(s[i + 1])

\* The digits that time.getnum takes for the layout's "15" at position i of
\* s: two when a second digit follows, else one.
HourLen(s, i) == IF Len(s) > i /\ IsDigit(s[i + 1]) THEN 2 ELSE 1

\* The digits of s in a row from position i on.
DigitRun(s, i) ==
    CHOOSE n \in 0..(Len(s) + 1) :
        /\ \A k \in 0..(n - 1) : i + k <= Len(s) /\ IsDigit(s[i + k])
        /\ (i + n > Len(s) \/ ~IsDigit(s[i + n]))

\* time.Parse after the seconds field of a layout without a fractional
\* second: if a '.' or ',' and a digit follow at position i of s, it takes
\* the separator and all digits in a row as the fraction.  The characters
\* taken, 0 if none.
FracLen(s, i) ==
    IF i + 1 <= Len(s) /\ s[i] \in {".", ","} /\ IsDigit(s[i + 1])
    THEN 1 + DigitRun(s, i + 1)
    ELSE 0

Pow10 == <<100000000, 10000000, 1000000, 100000, 10000, 1000, 100, 10, 1>>

\* time.parseNanoseconds: the nanoseconds that the fraction at position i of s
\* names; digits after the ninth are dropped.
FracNsec(s, i) ==
    LET k == FracLen(s, i) - 1
        term(j) == IF j <= k THEN DigitVal(s[i + j]) * Pow10[j] ELSE 0
    IN  term(1) + term(2) + term(3) + term(4) + term(5)
        + term(6) + term(7) + term(8) + term(9)

\* A clock value "15:04" (n = 2 fields) or "15:04:05" (n = 3) holds positions
\* i..Len(s) of s: an hour of one or two digits below 24, then ':' and two
\* digits below 60 for each further field, after the seconds a fraction if
\* there is one, and nothing after.
ClockAt(s, i, n) ==
    LET hl == HourLen(s, i)
    IN  /\ Len(s) >= i + hl + 3 * (n - 1) - 1
        /\ Len(s) = i + hl + 3 * (n - 1) - 1
                    + (IF n = 3 THEN FracLen(s, i + hl + 6) ELSE 0)
        /\ IsDigit(s[i])
        /\ Num(s, i, hl) < 24
        /\ \A k \in 1..(n - 1) :
             /\ s[i + hl + 3 * (k - 1)] = ":"
             /\ IsDigit(s[i + hl + 3 * (k - 1) + 1])
             /\ IsDigit(s[i + hl + 3 * (k - 1) + 2])
             /\ Num(s, i + hl + 3 * (k - 1) + 1, 2) < 60

\* The k-th two-digit field (1: minute, 2: second) after the hour at i.
ClockField(s, i, k) == Num(s, i + HourLen(s, i) + 3 * (k - 1) + 1, 2)

\* What a failed time.Parse leaves in the Time it returns: the zero clock.
NoClock == [ok |-> FALSE, hour |-> 0, min |-> 0, sec |-> 0]

\* time.Parse("15:04", s): hour of one or two digits, ':' and a two-digit
\* minute, nothing after.  [ok, hour, min, sec]
ParseHHMM(s) ==
    IF ClockAt(s, 1, 2)
    THEN [ok |-> TRUE, hour |-> Num(s, 1, HourLen(s, 1)),
          min |-> ClockField(s, 1, 1), sec |-> 0]
    ELSE NoClock

\* time.Parse("15:04:05", s), read by Hour(), Minute() and Second(): a
\* fraction of the second is parsed and not read.  [ok, hour, min, sec]
ParseHHMMSS(s) ==
    IF ClockAt(s, 1, 3)
    THEN [ok |-> TRUE, hour |-> Num(s, 1, HourLen(s, 1)),
          min |-> ClockField(s, 1, 1), sec |-> ClockField(s, 1, 2)]
    ELSE NoClock

-----------------------------------------------------------------------------
(* Calendar and instants                                                   *)

IsLeap(y) == (y % 4 = 0) /\ ((y % 100 # 0) \/ (y % 400 = 0))

\* time.daysIn
DaysIn(m, y) ==
    IF m = 2 THEN (IF IsLeap(y) THEN 29 ELSE 28)
    ELSE IF m \in {4, 6, 9, 11} THEN 30 ELSE 31

\* Leap years in 1970 .. y-1.
LeapsBefore(y) ==
    LET upto(n) == (n \div 4) - (n \div 100) + (n \div 400)
    IN  upto(y - 1) - upto(1969)

\* Days of a common year before each month (time.daysBefore).
daysBefore == <<0, 31, 59, 90, 120, 151, 181, 212, 243, 273, 304, 334>>

DaysBeforeMonth(m, y) == daysBefore[m] + (IF m > 2 /\ IsLeap(y) THEN 1 ELSE 0)

\* Days from 1970-01-01 to y-m-d.
DaysSinceEpoch(y, m, d) ==
    (y - 1970) * 365 + LeapsBefore(y) + DaysBeforeMonth(m, y) + (d - 1)

\* The instant s seconds and n nanoseconds after 00:00:00 UTC of day d (days
\* since 1970-01-01), in a Location of offset o.
InstantAt(d, s, n, o) ==
    [day |-> d + (s \div 86400), sec |-> s % 86400, nsec |-> n, off |-> o]

\* The instant u seconds after the epoch.
Instant(u, o) == InstantAt(0, u, 0, o)

\* Time.Before, Time.After: instants compare by the absolute time alone.
Before(a, b) ==
    \/ a.day < b.day
    \/ a.day = b.day /\ a.sec < b.sec
    \/ a.day = b.day /\ a.sec = b.sec /\ a.nsec < b.nsec

After(a, b) == Before(b, a)

\* The day number (since the epoch) of t's calendar date in t's Location:
\* what t.Year(), t.Month(), t.Day() determine.
LocalDay(t) == t.day + ((t.sec + t.off) \div 86400)

\* time.Date(t.Year(), t.Month(), t.Day(), h, mi, s, 0, t.Location())
Date(t, h, mi, s) ==
    InstantAt(LocalDay(t), h * 3600 + mi * 60 + s - t.off, 0, t.off)

\* x.Add(24 * time.Hour)
Add24h(x) == [x EXCEPT !.day = @ + 1]

\* strings.ToLower(t.Weekday().String()[:3]); 1970-01-01 was a Thursday.
WeekdayNames == <<"sun", "mon", "tue", "wed", "thu", "fri", "sat">>

WeekdayKey(t) == WeekdayNames[((LocalDay(t) + 4) % 7) + 1]

\* The zone "Z07:00" of an RFC3339 value holds positions z..Len(s) of s: "Z",
\* or a sign, two digits (at most 24), ':' and two digits (at most 60).
ZoneAt(s, z) ==
    \/ Len(s) = z /\ s[z] = "Z"
    \/ /\ Len(s) = z + 5
       /\ s[z] \in {"+", "-"}
       /\ IsDigit(s[z + 1]) /\ IsDigit(s[z + 2])
       /\ s[z + 3] = ":"
       /\ IsDigit(s[z + 4]) /\ IsDigit(s[z + 5])
       /\ Num(s, z + 1, 2) <= 24
       /\ Num(s, z + 4, 2) <= 60

\* Its offset, seconds east of UTC.
ZoneOffset(s, z) ==
    IF s[z] = "Z" THEN 0
    ELSE IF s[z] = "-" THEN 0 - (Num(s, z + 1, 2) * 60 + Num(s, z + 4, 2)) * 60
    ELSE (Num(s, z + 1, 2) * 60 + Num(s, z + 4, 2)) * 60

\* The zero Time, which a failed time.Parse returns: 0001-01-01T00:00:00Z.
ZeroTime == InstantAt(DaysSinceEpoch(1, 1, 1), 0, 0, 0)

\* Where the zone of an RFC3339 value starts: after the seconds and the
\* fraction that may follow them.
ZoneStart(s) == 12 + HourLen(s, 12) + 6 + FracLen(s, 12 + HourLen(s, 12) + 6)

\* time.Parse(time.RFC3339, s), layout "2006-01-02T15:04:05Z07:00": a
\* four-digit year, two-digit month and day, the clock with an hour of one or
\* two digits, a fraction of the second if there is one, and the zone.
RFC3339Ok(s) ==
    /\ Len(s) >= 13
    /\ \A i \in {1, 2, 3, 4, 6, 7, 9, 10} : IsDigit(s[i])
    /\ s[5] = "-" /\ s[8] = "-" /\ s[11] = "T"
    /\ Num(s, 6, 2) >= 1 /\ Num(s, 6, 2) <= 12
    /\ IsDigit(s[12])
    /\ Num(s, 12, HourLen(s, 12)) < 24
    /\ Len(s) >= 12 + HourLen(s, 12) + 6
    /\ \A k \in 1..2 :
         /\ s[12 + HourLen(s, 12) + 3 * (k - 1)] = ":"
         /\ IsDigit(s[12 + HourLen(s, 12) + 3 * (k - 1) + 1])
         /\ IsDigit(s[12 + HourLen(s, 12) + 3 * (k - 1) + 2])
         /\ ClockField(s, 12, k) < 60
    /\ ZoneAt(s, ZoneStart(s))
    /\ Num(s, 9, 2) >= 1
    /\ Num(s, 9, 2) <= DaysIn(Num(s, 6, 2), Num(s, 1, 2) * 100 + Num(s, 3, 2))

\* [ok, t]; t is the zero Time when the parse fails.
ParseRFC3339(s) ==
    IF ~RFC3339Ok(s) THEN [ok |-> FALSE, t |-> ZeroTime]
    ELSE [ok |-> TRUE,
          t |-> InstantAt(DaysSinceEpoch(Num(s, 1, 2) * 100 + Num(s, 3, 2),
                                         Num(s, 6, 2), Num(s, 9, 2)),
                          Num(s, 12, HourLen(s, 12)) * 3600
                          + ClockField(s, 12, 1) * 60 + ClockField(s, 12, 2)
                          - ZoneOffset(s, ZoneStart(s)),
                          FracNsec(s, 12 + HourLen(s, 12) + 6),
                          ZoneOffset(s, ZoneStart(s)))]

-----------------------------------------------------------------------------
(* Camera configuration: Config and Config.Validate                        *)

\* A Config value.  WeeklySchedule is a map (a function on the weekday keys
\* it holds, <<>> when empty), Schedule a list of [Start, End] records.
MkConfig(camera, sh, eh, weekly, sched) ==
    [Camera |-> camera, StartHours |-> sh, EndHours |-> eh,
     WeeklySchedule |-> weekly, Schedule |-> sched]

\* hours := cfg.StartHours != "" && cfg.EndHours != ""
hoursSet(cfg) == cfg.StartHours # <<>> /\ cfg.EndHours # <<>>

\* weekly := len(cfg.WeeklySchedule) > 0
weeklySet(cfg) == Cardinality(DOMAIN cfg.WeeklySchedule) > 0

\* dates := len(cfg.Schedule) > 0
datesSet(cfg) == Len(cfg.Schedule) > 0

\* days := []string{"mon", ..., "sun"}
WeeklyDays == <<"mon", "tue", "wed", "thu", "fri", "sat", "sun">>

VOk(camera) == [ok |-> TRUE, err |-> "", day |-> "", idx |-> 0,
                deps |-> <<camera>>]

VErr(kind, day, idx) == [ok |-> FALSE, err |-> kind, day |-> day, idx |-> idx,
                         deps |-> <<>>]

\* The body of the loop over days for one day: the error it returns, "" if
\* it returns none.
WeeklyDayError(cfg, day) ==
    IF day \notin DOMAIN cfg.WeeklySchedule THEN "weekly_missing"
    ELSE LET sh == cfg.WeeklySchedule[day]
         IN  IF sh.Start = <<>> \/ sh.End = <<>> THEN "weekly_empty"
             ELSE IF ~ParseHHMMSS(sh.Start).ok THEN "weekly_bad_start"
             ELSE IF ~ParseHHMMSS(sh.End).ok THEN "weekly_bad_end"
             ELSE ""

\* The body of the loop over cfg.Schedule for entry i.
ScheduleEntryError(cfg, i) ==
    LET start == ParseRFC3339(cfg.Schedule[i].Start)
        end   == ParseRFC3339(cfg.Schedule[i].End)
    IN  IF ~start.ok THEN "schedule_bad_start"
        ELSE IF ~end.ok THEN "schedule_bad_end"
        ELSE IF ~Before(start.t, end.t) THEN "schedule_not_before"
        ELSE ""

Min(S) == CHOOSE x \in S : \A y \in S : x <= y

\* Config.Validate: the first failing check decides the error.
Validate(cfg) ==
    LET badDays == {i \in 1..7 : WeeklyDayError(cfg, WeeklyDays[i]) # ""}
        badIdx  == {i \in 1..Len(cfg.Schedule) : ScheduleEntryError(cfg, i) # ""}
    IN  IF cfg.Camera = "" THEN VErr("camera_required", "", 0)
        ELSE IF ~(hoursSet(cfg) \/ weeklySet(cfg) \/ datesSet(cfg))
        THEN VErr("no_schedule", "", 0)
        ELSE IF hoursSet(cfg) /\ ~ParseHHMM(cfg.StartHours).ok
        THEN VErr("bad_start_hours", "", 0)
        ELSE IF hoursSet(cfg) /\ ~ParseHHMM(cfg.EndHours).ok
        THEN VErr("bad_end_hours", "", 0)
        ELSE IF weeklySet(cfg) /\ badDays # {}
        THEN VErr(WeeklyDayError(cfg, WeeklyDays[Min(badDays)]),
                  WeeklyDays[Min(badDays)], 0)
        ELSE IF datesSet(cfg) /\ badIdx # {}
        THEN VErr(ScheduleEntryError(cfg, Min(badIdx)), "", Min(badIdx))
        ELSE VOk(cfg.Camera)

-----------------------------------------------------------------------------
(* Camera window evaluation: timedCamera.inWindow                          *)

\* A variant of ClockWindow whose end is exclusive.
ClockWindowExclusiveEnd(ps, pe, t) ==
    LET start == Date(t, ps.hour, ps.min, ps.sec)
        end0  == Date(t, pe.hour, pe.min, pe.sec)
        end   == IF After(start, end0) THEN Add24h(end0) ELSE end0
    IN  ~Before(t, start) /\ Before(t, end)

\* The anchoring, the 24h extension and the inclusive comparison shared by
\* the daily and the weekly branch, from the parsed clock values.
ClockWindow(ps, pe, t) ==
    LET start == Date(t, ps.hour, ps.min, ps.sec)
        end0  == Date(t, pe.hour, pe.min, pe.sec)
        end   == IF After(start, end0) THEN Add24h(end0) ELSE end0
    IN  ~Before(t, start) /\ ~After(t, end)

\* Hours mode, from the two strings read from the configuration.
DailyWindow(sh, eh, t) == ClockWindow(ParseHHMM(sh), ParseHHMM(eh), t)

\* Weekly mode, from the entry found for t's weekday.
WeeklyWindow(entry, t) ==
    ClockWindow(ParseHHMMSS(entry.Start), ParseHHMMSS(entry.End), t)

\* x, _ := time.Parse(time.RFC3339, s)
ParsedOrZero(s) == ParseRFC3339(s).t

\* A variant of ScheduleWindow that looks at the first range only.
ScheduleWindowFirstOnly(sched, t) ==
    /\ Len(sched) > 0
    /\ ~Before(t, ParsedOrZero(sched[1].Start))
    /\ ~After(t, ParsedOrZero(sched[1].End))

\* Explicit date ranges: some range holds t, both ends included.
ScheduleWindow(sched, t) ==
    \E i \in 1..Len(sched) :
        /\ ~Before(t, ParsedOrZero(sched[i].Start))
        /\ ~After(t, ParsedOrZero(sched[i].End))

\* A time.Parse call: its layout and its argument.
Parse(layout, s) == [layout |-> layout, s |-> s]

\* Whether that call returns a nil error.
ParseOk(p) ==
    IF p.layout = "15:04" THEN ParseHHMM(p.s).ok
    ELSE IF p.layout = "15:04:05" THEN ParseHHMMSS(p.s).ok
    ELSE ParseRFC3339(p.s).ok

\* The calls of lines 211-212 on the entry found.
EntryParsed(entry) == {Parse("15:04:05", entry.Start), Parse("15:04:05", entry.End)}

\* The calls of lines 224-225: the loop parses range after range and stops
\* at the first that holds t.
ScheduleParsed(sched, t) ==
    LET hit(i) == /\ ~Before(t, ParsedOrZero(sched[i].Start))
                  /\ ~After(t, ParsedOrZero(sched[i].End))
        reached == {i \in 1..Len(sched) : \A j \in 1..(i - 1) : ~hit(j)}
    IN  UNION {{Parse("RFC3339", sched[i].Start), Parse("RFC3339", sched[i].End)} :
                  i \in reached}

\* inWindow on one configuration value (no concurrent Reconfigure).
inWindow(cfg, t) ==
    IF cfg.StartHours # <<>> /\ cfg.EndHours # <<>>
    THEN DailyWindow(cfg.StartHours, cfg.EndHours, t)
    ELSE IF /\ Cardinality(DOMAIN cfg.WeeklySchedule) > 0
            /\ WeekdayKey(t) \in DOMAIN cfg.WeeklySchedule
    THEN WeeklyWindow(cfg.WeeklySchedule[WeekdayKey(t)], t)
    ELSE ScheduleWindow(cfg.Schedule, t)

-----------------------------------------------------------------------------
(* Sensor: Config.Validate and timeSensor.Readings                         *)

MkSensorConfig(sh, eh) == [StartHours |-> sh, EndHours |-> eh]

SensorValidate(cfg) ==
    IF cfg.StartHours = <<>> \/ cfg.EndHours = <<>> THEN "hours_required"
    ELSE IF ~ParseHHMM(cfg.StartHours).ok THEN "bad_start_hours"
    ELSE IF ~ParseHHMM(cfg.EndHours).ok THEN "bad_end_hours"
    ELSE ""

\* A variant of Readings that flags the overnight range but leaves endTime
\* on currentTime's date.
ReadingsNoExtension(sh, eh, t) ==
    LET ps == ParseHHMM(sh)
        pe == ParseHHMM(eh)
        startTime == Date(t, ps.hour, ps.min, 0)
        endTime   == Date(t, pe.hour, pe.min, 0)
    IN  IF ~ps.ok
        THEN [err |-> "bad_start_time", should_sync |-> FALSE,
              overnight_time_range |-> FALSE, start_time |-> ZeroTime,
              end_time |-> ZeroTime]
        ELSE IF ~pe.ok
        THEN [err |-> "bad_end_time", should_sync |-> FALSE,
              overnight_time_range |-> FALSE, start_time |-> ZeroTime,
              end_time |-> ZeroTime]
        ELSE [err |-> "",
              should_sync |-> ~Before(t, startTime) /\ ~After(t, endTime),
              overnight_time_range |-> After(startTime, endTime),
              start_time |-> startTime, end_time |-> endTime]

\* Readings from the two strings it reads and currentTime.
\* [err, should_sync, overnight_time_range, start_time, end_time]
Readings(sh, eh, t) ==
    LET ps == ParseHHMM(sh)
        pe == ParseHHMM(eh)
        startTime == Date(t, ps.hour, ps.min, 0)
        end0      == Date(t, pe.hour, pe.min, 0)
        overnight == After(startTime, end0)
        endTime   == IF overnight THEN Add24h(end0) ELSE end0
    IN  IF ~ps.ok
        THEN [err |-> "bad_start_time", should_sync |-> FALSE,
              overnight_time_range |-> FALSE, start_time |-> ZeroTime,
              end_time |-> ZeroTime]
        ELSE IF ~pe.ok
        THEN [err |-> "bad_end_time", should_sync |-> FALSE,
              overnight_time_range |-> FALSE, start_time |-> ZeroTime,
              end_time |-> ZeroTime]
        ELSE [err |-> "", 
              should_sync |-> ~Before(t, startTime) /\ ~After(t, endTime),
              overnight_time_range |-> overnight,
              start_time |-> startTime, end_time |-> endTime]

-----------------------------------------------------------------------------
(* Bounds and input samples                                                *)

\* Calendar days, from 2024-01-01 (a Monday), that the sampled instants span.
MaxDays == 2

\* Calls (constructor, Reconfigure, Image, Readings) the host starts in a run.
MaxCalls == 3

HHMM(h, m) == Fmt2(h) \o <<":">> \o Fmt2(m)

HHMMSS(h, m, x) == Fmt2(h) \o <<":">> \o Fmt2(m) \o <<":">> \o Fmt2(x)

\* An RFC3339 text in UTC ("...Z").
RFC(y, mo, d, h, mi, x) ==
    Fmt4(y) \o <<"-">> \o Fmt2(mo) \o <<"-">> \o Fmt2(d) \o <<"T">>
    \o HHMMSS(h, mi, x) \o <<"Z">>

\* The same with a "+hh:00" zone.
RFCEast(y, mo, d, h, mi, x, zh) ==
    Fmt4(y) \o <<"-">> \o Fmt2(mo) \o <<"-">> \o Fmt2(d) \o <<"T">>
    \o HHMMSS(h, mi, x) \o <<"+">> \o Fmt2(zh) \o <<":", "0", "0">>

\* An RFC3339 text in UTC with a fraction of the second: sep is "." or ","
\* and frac the digits after it.
RFCFrac(y, mo, d, h, mi, x, sep, frac) ==
    Fmt4(y) \o <<"-">> \o Fmt2(mo) \o <<"-">> \o Fmt2(d) \o <<"T">>
    \o HHMMSS(h, mi, x) \o <<sep>> \o frac \o <<"Z">>

BaseDay == DaysSinceEpoch(2024, 1, 1)

\* The instant at clock time h:m:x of day BaseDay + d in the zone of offset o.
At(d, h, m, x, o) ==
    InstantAt(BaseDay + d, h * 3600 + m * 60 + x - o, 0, o)

ClockSamples ==
    {<<0, 0, 0>>, <<0, 0, 1>>, <<2, 0, 0>>, <<6, 0, 0>>, <<7, 59, 0>>,
     <<8, 0, 0>>, <<12, 0, 0>>, <<18, 0, 0>>, <<18, 0, 1>>, <<18, 1, 0>>,
     <<22, 0, 0>>, <<23, 0, 0>>}

ZoneSamples == {0, 3600}

\* Instants half a second after a full second: after 18:00:00 of the first
\* day and after 00:00:00 of the second.
HalfSecond == 500000000

FracInstants ==
    {[At(0, 18, 0, 0, 0) EXCEPT !.nsec = HalfSecond],
     [At(1, 0, 0, 0, 0) EXCEPT !.nsec = HalfSecond]}

\* Values of time.Now().
Instants ==
    {At(d, c[1], c[2], c[3], o) :
        d \in 0..(MaxDays - 1), c \in ClockSamples, o \in ZoneSamples}
    \cup FracInstants

\* start_hours / end_hours texts: unset, well-formed, and malformed.
GoodHours == {HHMM(8, 0), HHMM(18, 0), HHMM(22, 0), <<"6", ":", "0", "0">>}

BadHours == {HHMM(24, 0), HHMM(8, 60), <<"0", "8", "0", "0">>}

HourSamples == {<<>>} \cup GoodHours \cup BadHours

\* weekly_schedule entries.
EntryFrac == [Start |-> HHMMSS(9, 0, 0) \o <<".", "5">>,
              End |-> HHMMSS(18, 0, 0) \o <<",", "2", "5", "0">>]

GoodEntries == {[Start |-> HHMMSS(9, 0, 0), End |-> HHMMSS(17, 0, 0)],
                [Start |-> HHMMSS(22, 0, 0), End |-> HHMMSS(6, 0, 0)],
                EntryFrac}

BadEntries == {[Start |-> <<>>, End |-> HHMMSS(17, 0, 0)],
               [Start |-> HHMMSS(9, 0, 0), End |-> <<>>],
               [Start |-> HHMM(9, 0), End |-> HHMMSS(17, 0, 0)],
               [Start |-> HHMMSS(9, 0, 0), End |-> HHMMSS(17, 0, 60)],
               [Start |-> HHMMSS(9, 0, 0) \o <<".">>, End |-> HHMMSS(17, 0, 0)]}

DaySet == {WeeklyDays[i] : i \in 1..7}

FullWeek(e) == [d \in DaySet |-> e]

\* weekly_schedule maps: empty, all seven days, one day missing, one day with
\* another (good or bad) entry.
WeeklySamples ==
    {<<>>}
    \cup {FullWeek(e) : e \in GoodEntries}
    \cup {[d \in DaySet \ {m} |-> [Start |-> HHMMSS(9, 0, 0), End |-> HHMMSS(17, 0, 0)]] :
            m \in {"mon", "sun"}}
    \cup {[FullWeek([Start |-> HHMMSS(9, 0, 0), End |-> HHMMSS(17, 0, 0)])
             EXCEPT ![d] = b] :
            d \in {"mon", "sun"}, b \in BadEntries \cup GoodEntries}

\* schedule ranges.
RangeJan1 == [Start |-> RFC(2024, 1, 1, 0, 0, 0), End |-> RFC(2024, 1, 2, 0, 0, 0)]

RangeEve == [Start |-> RFCEast(2024, 1, 2, 19, 0, 0, 1),
             End |-> RFC(2024, 1, 2, 22, 0, 0)]

RangeReversed == [Start |-> RFC(2024, 1, 2, 0, 0, 0), End |-> RFC(2024, 1, 1, 0, 0, 0)]

RangeEmpty == [Start |-> RFC(2024, 1, 1, 0, 0, 0), End |-> RFC(2024, 1, 1, 0, 0, 0)]

RangeBadStart == [Start |-> RFC(2024, 2, 30, 0, 0, 0), End |-> RFC(2024, 3, 1, 0, 0, 0)]

RangeBadEnd == [Start |-> RFC(2024, 1, 1, 0, 0, 0), End |-> HHMM(8, 0)]

\* Ranges written with fractions of a second: the first day up to half a
\* second past its end, and a range whose fractions alone are reversed.
RangeFrac == [Start |-> RFCFrac(2024, 1, 1, 0, 0, 0, ".", <<"0", "0", "0">>),
              End |-> RFCFrac(2024, 1, 2, 0, 0, 0, ",", <<"5">>)]

RangeFracReversed ==
    [Start |-> RFCFrac(2024, 1, 1, 0, 0, 0, ".", <<"7">>),
     End |-> RFCFrac(2024, 1, 1, 0, 0, 0, ".", <<"2">>)]

ScheduleSamples ==
    {<<>>, <<RangeJan1>>, <<RangeEve>>, <<RangeEve, RangeJan1>>,
     <<RangeReversed>>, <<RangeEmpty>>, <<RangeBadStart>>,
     <<RangeJan1, RangeBadEnd>>, <<RangeFrac>>, <<RangeFracReversed>>}

CameraNames == {"", "cam1"}

\* Configurations handed to Validate.
ConfigSamples ==
    {MkConfig(c, sh, eh, w, sc) :
        c \in CameraNames, sh \in HourSamples, eh \in HourSamples,
        w \in WeeklySamples, sc \in ScheduleSamples}

-----------------------------------------------------------------------------
(* State                                                                   *)

NoConfig == MkConfig("", <<>>, <<>>, <<>>, <<>>)

NoInstant == Instant(0, 0)

NoValidation == VErr("", "", 0)

\* No call of a pure function under way.
NoProbe == [kind |-> "none", cfg |-> NoConfig, t |-> NoInstant, done |-> FALSE,
            v |-> NoValidation, w |-> FALSE]

\* A call of Validate or of inWindow on given inputs.
ValidateProbe(cfg) == [NoProbe EXCEPT !.kind = "Validate", !.cfg = cfg]

InWindowProbe(cfg, t) == [NoProbe EXCEPT !.kind = "inWindow", !.cfg = cfg, !.t = t]

\* The camera wrapper's inputs in the state machine.
Nil == "nil"

\* resource.Dependencies handed to the constructor and to Reconfigure: the
\* names of the cameras they hold.
DepSets == {{"cam1", "cam2"}, {"cam1"}}

Everyday(e) == FullWeek(e)

CfgDay == MkConfig("cam1", HHMM(8, 0), HHMM(18, 0), <<>>, <<>>)

CfgNight == MkConfig("cam2", HHMM(22, 0), HHMM(6, 0), <<>>, <<>>)

\* Every day from 09:00:00.5 (read as 09:00:00) to 17:00:00.
CfgWeek ==
    MkConfig("cam1", <<>>, <<>>,
             Everyday([Start |-> HHMMSS(9, 0, 0) \o <<".", "5">>,
                       End |-> HHMMSS(17, 0, 0)]), <<>>)

\* The first day of 2024, its start written with a fraction of the second.
CfgDates ==
    MkConfig("cam2", <<>>, <<>>, <<>>,
             <<[Start |-> RFCFrac(2024, 1, 1, 0, 0, 0, ".", <<"0", "0", "0">>),
                End |-> RFC(2024, 1, 2, 0, 0, 0)]>>)

CfgUnscheduled == MkConfig("cam1", <<>>, <<>>, <<>>, <<>>)

\* resource.Config values: whether resource.NativeConfig[*Config] succeeds,
\* the resource name and the converted attributes.
RawConf(parseOk, name, conf) == [parseOk |-> parseOk, name |-> name, conf |-> conf]

RawConfs ==
    {RawConf(TRUE, "timed", c) :
        c \in {CfgDay, CfgNight, CfgWeek, CfgDates, CfgUnscheduled}}
    \cup {RawConf(FALSE, "timed", NoConfig)}

\* The extra argument of Image: a nil map, or a map of keys to typed values.
Extra(isNil, m) == [nil |-> isNil, m |-> m]

Extras ==
    {Extra(TRUE, <<>>), Extra(FALSE, <<>>)}
    \cup {Extra(FALSE, [k \in {"fromDataManagement"} |-> v]) :
            v \in {"bool:true", "bool:false", "string:true"}}

MachineInstants == {At(0, 12, 0, 0, 0), At(0, 23, 0, 0, 0), At(1, 2, 0, 0, 0)}

\* What an inner camera's Image may return: its bytes, or its own error.
InnerErrors == {"", "inner_error"}

Ret(kind, bytes, err) == [kind |-> kind, bytes |-> bytes, err |-> err]

NoRet == Ret("none", "", "")

\* return nil, camera.ImageMetadata{}, ErrNoCapture
RetNoCapture == Ret("returned", "", "ErrNoCaptureToStore")

\* A method call on a nil camera.Camera panics.
RetPanic == Ret("panic", "", "nil_dereference")

\* camera.FromDependencies(deps, name): the camera of that name, or nil and
\* an error.
FromDependencies(deps, name) ==
    IF name \in deps THEN [cam |-> name, err |-> ""]
    ELSE [cam |-> Nil, err |-> "resource_not_found"]

\* c.inner.Image(ctx, mimeType, extra), with e what that camera answers.
InnerImage(inner, e) ==
    IF inner = Nil THEN RetPanic
    ELSE IF e = "" THEN Ret("returned", inner, "") ELSE Ret("returned", "", e)

\* extra != nil && extra["fromDataManagement"] == true
fromDataManagement(extra) ==
    /\ ~extra.nil
    /\ "fromDataManagement" \in DOMAIN extra.m
    /\ extra.m["fromDataManagement"] = "bool:true"

NoCtor == [called |-> FALSE, raw |-> RawConf(FALSE, "", NoConfig), deps |-> {},
           err |-> ""]

\* The timedCamera: absent until newTimedCamera succeeds.  ctor is the last
\* constructor call; held are the configurations c.cfg has pointed to and
\* settled the (cfg, inner) pairs the wrapper held when no Reconfigure ran.
NoCamera == [exists |-> FALSE, cfg |-> NoConfig, name |-> "", inner |-> Nil,
             ctor |-> NoCtor, held |-> {}, settled |-> {}]

\* What a Reconfigure call may assign: c.cfg, c.name and c.inner.
Fields(c) == [cfg |-> c.cfg, name |-> c.name, inner |-> c.inner]

\* A Reconfigure call: its position, its arguments, its returned error and
\* pre, the wrapper's fields when it was called.
NoReconfigure == [pc |-> "idle", raw |-> RawConf(FALSE, "", NoConfig),
                  deps |-> {}, err |-> "",
                  pre |-> [cfg |-> NoConfig, name |-> "", inner |-> Nil]]

\* The lookup of line 210, sh, ok := c.cfg.WeeklySchedule[day]: whether the
\* call has made it, and what it gave.
NoLookup == [looked |-> FALSE, ok |-> FALSE, sh |-> [Start |-> <<>>, End |-> <<>>]]

\* An Image call: its position, its arguments, time.Now(), the strings it
\* parsed, the configurations its loads of c.cfg saw, the lookup of the
\* weekday's entry, whether inWindow ran and its result, the inner camera
\* called, what that returned and what Image returned.  parsed holds every
\* time.Parse call inWindow has made, as [layout, s].
NoImage == [pc |-> "idle", extra |-> Extra(TRUE, <<>>), now |-> NoInstant,
            sh |-> <<>>, eh |-> <<>>, parsed |-> {}, seen |-> {}, gated |-> FALSE,
            day |-> NoLookup,
            inWin |-> FALSE, inner |-> Nil, innerCalls |-> 0,
            innerRet |-> NoRet, ret |-> NoRet]

\* The sensor's inputs: configurations the host has passed through the
\* sensor's Validate before it calls the constructor or Reconfigure.
SensorDay == MkSensorConfig(HHMM(8, 0), HHMM(18, 0))

SensorNight == MkSensorConfig(HHMM(22, 0), HHMM(6, 0))

NoSensorConfig == MkSensorConfig(<<>>, <<>>)

SensorRawConfs ==
    {RawConf(TRUE, "sync", c) : c \in {SensorDay, SensorNight}}
    \cup {RawConf(FALSE, "sync", NoSensorConfig)}

\* The timeSensor: absent until newtimeSensor succeeds; held are the
\* configurations s.cfg has pointed to.
NoSensor == [exists |-> FALSE, cfg |-> NoSensorConfig, name |-> "", held |-> {}]

\* A sensor Reconfigure call.
NoSensorReconfigure == [pc |-> "idle", raw |-> RawConf(FALSE, "", NoSensorConfig),
                        err |-> ""]

NoReadings == [err |-> "", should_sync |-> FALSE, overnight_time_range |-> FALSE,
               start_time |-> ZeroTime, end_time |-> ZeroTime]

\* A Readings call: its position, time.Now(), the strings it parsed and the
\* map (or error) it returned.
NoReadingsCall == [pc |-> "idle", now |-> NoInstant, sh |-> <<>>, eh |-> <<>>,
                   out |-> NoReadings]

-----------------------------------------------------------------------------
(* Camera wrapper: newTimedCamera, Reconfigure, Image                      *)

\* The error with which the constructor and Reconfigure return before they
\* touch the wrapper: NativeConfig fails, or Validate does.  "" if neither.
ConfigError(raw) ==
    IF ~raw.parseOk THEN "unexpected_config_type"
    ELSE IF ~Validate(raw.conf).ok THEN Validate(raw.conf).err
    ELSE ""

\* newTimedCamera(ctx, deps, rawConf, logger)
NewTimedCamera(raw, deps) ==
    /\ ~cam.exists
    /\ calls < MaxCalls
    /\ calls' = calls + 1
    /\ LET r   == FromDependencies(deps, raw.conf.Camera)
           err == IF ConfigError(raw) # "" THEN ConfigError(raw) ELSE r.err
           ctor == [called |-> TRUE, raw |-> raw, deps |-> deps, err |-> err]
       IN  cam' = IF err # ""
                  THEN [cam EXCEPT !.ctor = ctor]
                  ELSE [exists |-> TRUE, cfg |-> raw.conf, name |-> raw.name,
                        inner |-> r.cam, ctor |-> ctor, held |-> {raw.conf},
                        settled |-> {[cfg |-> raw.conf, inner |-> r.cam]}]
    /\ UNCHANGED <<rc, img, sen, src, rd, probe>>

\* Reconfigure, lines 162-169: parse and validate the new configuration.
ReconfigureCall(raw, deps) ==
    /\ cam.exists
    /\ rc.pc = "idle"
    /\ calls < MaxCalls
    /\ calls' = calls + 1
    /\ rc' = [pc |-> IF ConfigError(raw) # "" THEN "done" ELSE "l171",
              raw |-> raw, deps |-> deps, err |-> ConfigError(raw),
              pre |-> Fields(cam)]
    /\ UNCHANGED <<cam, img, sen, src, rd, probe>>

\* c.cfg = conf
Reconfigure171 ==
    /\ rc.pc = "l171"
    /\ cam' = [cam EXCEPT !.cfg = rc.raw.conf, !.held = @ \cup {rc.raw.conf}]
    /\ rc' = [rc EXCEPT !.pc = "l172"]
    /\ UNCHANGED <<img, sen, src, rd, calls, probe>>

\* c.name = rawConf.ResourceName()
Reconfigure172 ==
    /\ rc.pc = "l172"
    /\ cam' = [cam EXCEPT !.name = rc.raw.name]
    /\ rc' = [rc EXCEPT !.pc = "l173"]
    /\ UNCHANGED <<img, sen, src, rd, calls, probe>>

\* A variant of line 173-174 that drops the error: return nil.
Reconfigure173ReturnsNil ==
    /\ rc.pc = "l173"
    /\ LET r == FromDependencies(rc.deps, rc.raw.conf.Camera)
       IN  /\ cam' = [cam EXCEPT !.inner = r.cam,
                                 !.settled = @ \cup {[cfg |-> cam.cfg, inner |-> r.cam]}]
           /\ rc' = [rc EXCEPT !.pc = "done", !.err = ""]
    /\ UNCHANGED <<img, sen, src, rd, calls, probe>>

\* c.inner, err = camera.FromDependencies(deps, conf.Camera); return err
Reconfigure173 ==
    /\ rc.pc = "l173"
    /\ LET r == FromDependencies(rc.deps, rc.raw.conf.Camera)
       IN  /\ cam' = [cam EXCEPT !.inner = r.cam,
                                 !.settled = @ \cup {[cfg |-> cam.cfg, inner |-> r.cam]}]
           /\ rc' = [rc EXCEPT !.pc = "done", !.err = r.err]
    /\ UNCHANGED <<img, sen, src, rd, calls, probe>>

\* The caller has the error; the next Reconfigure may start.
ReconfigureReturn ==
    /\ rc.pc = "done"
    /\ rc' = NoReconfigure
    /\ UNCHANGED <<cam, img, sen, src, rd, calls, probe>>

\* Image, lines 183-184: the marker test and time.Now().
ImageCall(extra) ==
    /\ cam.exists
    /\ img.pc = "idle"
    /\ calls < MaxCalls
    /\ calls' = calls + 1
    /\ IF fromDataManagement(extra)
       THEN \E now \in MachineInstants :
                img' = [NoImage EXCEPT !.pc = "w196a", !.extra = extra,
                                       !.now = now, !.gated = TRUE]
       ELSE img' = [NoImage EXCEPT !.pc = "l190", !.extra = extra]
    /\ UNCHANGED <<cam, rc, sen, src, rd, probe>>

\* Lines 185-188 once inWindow has returned w.
AfterWindow(w) ==
    IF w THEN [img EXCEPT !.pc = "l190", !.inWin = TRUE,
                          !.seen = @ \cup {cam.cfg}]
    ELSE [img EXCEPT !.pc = "done", !.inWin = FALSE, !.ret = RetNoCapture,
                     !.seen = @ \cup {cam.cfg}]

\* A step of inWindow that only moves on, having loaded c.cfg.
Goto(pc) == [img EXCEPT !.pc = pc, !.seen = @ \cup {cam.cfg}]

\* inWindow, line 196: c.cfg.StartHours != ""
InWindow196a ==
    /\ img.pc = "w196a"
    /\ img' = Goto(IF cam.cfg.StartHours # <<>> THEN "w196b" ELSE "w208")
    /\ UNCHANGED <<cam, rc, sen, src, rd, calls, probe>>

\* line 196: c.cfg.EndHours != ""
InWindow196b ==
    /\ img.pc = "w196b"
    /\ img' = Goto(IF cam.cfg.EndHours # <<>> THEN "w197" ELSE "w208")
    /\ UNCHANGED <<cam, rc, sen, src, rd, calls, probe>>

\* line 197: sh, _ := time.Parse("15:04", c.cfg.StartHours)
InWindow197 ==
    /\ img.pc = "w197"
    /\ img' = [Goto("w198") EXCEPT !.sh = cam.cfg.StartHours,
                                   !.parsed = @ \cup {Parse("15:04", cam.cfg.StartHours)}]
    /\ UNCHANGED <<cam, rc, sen, src, rd, calls, probe>>

\* lines 198-204: eh from c.cfg.EndHours, then the daily window.
InWindow198 ==
    /\ img.pc = "w198"
    /\ img' = [AfterWindow(DailyWindow(img.sh, cam.cfg.EndHours, img.now))
                 EXCEPT !.eh = cam.cfg.EndHours,
                        !.parsed = @ \cup {Parse("15:04", cam.cfg.EndHours)}]
    /\ UNCHANGED <<cam, rc, sen, src, rd, calls, probe>>

\* line 208: len(c.cfg.WeeklySchedule) > 0
InWindow208 ==
    /\ img.pc = "w208"
    /\ img' = Goto(IF Cardinality(DOMAIN cam.cfg.WeeklySchedule) > 0
                   THEN "w210" ELSE "w223")
    /\ UNCHANGED <<cam, rc, sen, src, rd, calls, probe>>

\* lines 209-219: the entry of t's weekday, and its window if there is one.
InWindow210 ==
    /\ img.pc = "w210"
    /\ img' = IF WeekdayKey(img.now) \in DOMAIN cam.cfg.WeeklySchedule
              THEN [AfterWindow(WeeklyWindow(
                        cam.cfg.WeeklySchedule[WeekdayKey(img.now)], img.now))
                      EXCEPT !.parsed = @ \cup EntryParsed(
                                 cam.cfg.WeeklySchedule[WeekdayKey(img.now)]),
                             !.day = [looked |-> TRUE, ok |-> TRUE,
                                      sh |-> cam.cfg.WeeklySchedule[WeekdayKey(img.now)]]]
              ELSE [Goto("w223") EXCEPT !.day = [NoLookup EXCEPT !.looked = TRUE]]
    /\ UNCHANGED <<cam, rc, sen, src, rd, calls, probe>>

\* lines 223-231: the ranges of c.cfg.Schedule.
InWindow223 ==
    /\ img.pc = "w223"
    /\ img' = [AfterWindow(ScheduleWindow(cam.cfg.Schedule, img.now))
                 EXCEPT !.parsed = @ \cup ScheduleParsed(cam.cfg.Schedule, img.now)]
    /\ UNCHANGED <<cam, rc, sen, src, rd, calls, probe>>

\* What Image returns of the inner camera's answer: line 190 returns it as is.
Delegated(innerRet) == innerRet

\* line 190: return c.inner.Image(ctx, mimeType, extra)
ImageDelegate ==
    /\ img.pc = "l190"
    /\ \E e \in InnerErrors :
         img' = [img EXCEPT !.pc = "done",
                            !.inner = cam.inner,
                            !.innerCalls = IF cam.inner = Nil THEN @ ELSE @ + 1,
                            !.innerRet = InnerImage(cam.inner, e),
                            !.ret = Delegated(InnerImage(cam.inner, e))]
    /\ UNCHANGED <<cam, rc, sen, src, rd, calls, probe>>

\* The caller has the result; the next Image call may start.
ImageReturn ==
    /\ img.pc = "done"
    /\ img' = NoImage
    /\ UNCHANGED <<cam, rc, sen, src, rd, calls, probe>>

-----------------------------------------------------------------------------
(* Sensor: newtimeSensor, Reconfigure, Readings                            *)

\* newtimeSensor(ctx, deps, rawConf, logger)
NewTimeSensor(raw) ==
    /\ ~sen.exists
    /\ calls < MaxCalls
    /\ calls' = calls + 1
    /\ sen' = IF ~raw.parseOk THEN sen
              ELSE [exists |-> TRUE, cfg |-> raw.conf, name |-> raw.name,
                    held |-> {raw.conf}]
    /\ UNCHANGED <<cam, rc, img, src, rd, probe>>

\* Reconfigure, lines 82-86: the new configuration is converted.
SensorReconfigureCall(raw) ==
    /\ sen.exists
    /\ src.pc = "idle"
    /\ calls < MaxCalls
    /\ calls' = calls + 1
    /\ src' = [pc |-> IF raw.parseOk THEN "l88" ELSE "done", raw |-> raw,
               err |-> IF raw.parseOk THEN "" ELSE "unexpected_config_type"]
    /\ UNCHANGED <<cam, rc, img, sen, rd, probe>>

\* s.name = conf.ResourceName()
SensorReconfigure88 ==
    /\ src.pc = "l88"
    /\ sen' = [sen EXCEPT !.name = src.raw.name]
    /\ src' = [src EXCEPT !.pc = "l89"]
    /\ UNCHANGED <<cam, rc, img, rd, calls, probe>>

\* s.cfg = newConfig; return nil
SensorReconfigure89 ==
    /\ src.pc = "l89"
    /\ sen' = [sen EXCEPT !.cfg = src.raw.conf, !.held = @ \cup {src.raw.conf}]
    /\ src' = [src EXCEPT !.pc = "done"]
    /\ UNCHANGED <<cam, rc, img, rd, calls, probe>>

SensorReconfigureReturn ==
    /\ src.pc = "done"
    /\ src' = NoSensorReconfigure
    /\ UNCHANGED <<cam, rc, img, sen, rd, calls, probe>>

\* Readings, line 95: currentTime := time.Now()
ReadingsCall(now) ==
    /\ sen.exists
    /\ rd.pc = "idle"
    /\ calls < MaxCalls
    /\ calls' = calls + 1
    /\ rd' = [NoReadingsCall EXCEPT !.pc = "l97", !.now = now]
    /\ UNCHANGED <<cam, rc, img, sen, src, probe>>

\* lines 97-101: time.Parse("15:04", s.cfg.StartHours)
Readings97 ==
    /\ rd.pc = "l97"
    /\ rd' = IF ParseHHMM(sen.cfg.StartHours).ok
             THEN [rd EXCEPT !.pc = "l102", !.sh = sen.cfg.StartHours]
             ELSE [rd EXCEPT !.pc = "done", !.sh = sen.cfg.StartHours,
                             !.out = Readings(sen.cfg.StartHours, <<>>, rd.now)]
    /\ UNCHANGED <<cam, rc, img, sen, src, calls, probe>>

\* lines 102-133: s.cfg.EndHours, then the window and the returned map.
Readings102 ==
    /\ rd.pc = "l102"
    /\ rd' = [rd EXCEPT !.pc = "done", !.eh = sen.cfg.EndHours,
                        !.out = Readings(rd.sh, sen.cfg.EndHours, rd.now)]
    /\ UNCHANGED <<cam, rc, img, sen, src, calls, probe>>

ReadingsReturn ==
    /\ rd.pc = "done"
    /\ rd' = NoReadingsCall
    /\ UNCHANGED <<cam, rc, img, sen, src, calls, probe>>

-----------------------------------------------------------------------------
(* The components under concurrent calls of the host                       *)

Init ==
    /\ cam = NoCamera
    /\ rc = NoReconfigure
    /\ img = NoImage
    /\ sen = NoSensor
    /\ src = NoSensorReconfigure
    /\ rd = NoReadingsCall
    /\ calls = 0
    /\ probe = NoProbe

Next ==
    \/ \E raw \in RawConfs, deps \in DepSets : NewTimedCamera(raw, deps)
    \/ \E raw \in RawConfs, deps \in DepSets : ReconfigureCall(raw, deps)
    \/ Reconfigure171
    \/ Reconfigure172
    \/ Reconfigure173
    \/ ReconfigureReturn
    \/ \E extra \in Extras : ImageCall(extra)
    \/ InWindow196a
    \/ InWindow196b
    \/ InWindow197
    \/ InWindow198
    \/ InWindow208
    \/ InWindow210
    \/ InWindow223
    \/ ImageDelegate
    \/ ImageReturn
    \/ \E raw \in SensorRawConfs : NewTimeSensor(raw)
    \/ \E raw \in SensorRawConfs : SensorReconfigureCall(raw)
    \/ SensorReconfigure88
    \/ SensorReconfigure89
    \/ SensorReconfigureReturn
    \/ \E now \in MachineInstants : ReadingsCall(now)
    \/ Readings97
    \/ Readings102
    \/ ReadingsReturn

Spec == Init /\ [][Next]_vars

-----------------------------------------------------------------------------
(* Validate and inWindow as functions of their inputs.  inWindow runs on    *)
(* the configuration a wrapper holds, which the constructor or Reconfigure *)
(* has passed through Validate.                                            *)

\* cfg.Validate(path)
ApplyValidate ==
    /\ probe.kind = "Validate"
    /\ ~probe.done
    /\ probe' = [probe EXCEPT !.done = TRUE, !.v = Validate(probe.cfg)]
    /\ UNCHANGED <<cam, rc, img, sen, src, rd, calls>>

\* c.inWindow(t) with c.cfg the probe's configuration
ApplyInWindow ==
    /\ probe.kind = "inWindow"
    /\ ~probe.done
    /\ probe' = [probe EXCEPT !.done = TRUE, !.w = inWindow(probe.cfg, probe.t)]
    /\ UNCHANGED <<cam, rc, img, sen, src, rd, calls>>

InitPure ==
    /\ cam = NoCamera
    /\ rc = NoReconfigure
    /\ img = NoImage
    /\ sen = NoSensor
    /\ src = NoSensorReconfigure
    /\ rd = NoReadingsCall
    /\ calls = 0
    /\ \/ \E cfg \in ConfigSamples : probe = ValidateProbe(cfg)
       \/ \E cfg \in ConfigSamples :
            /\ Validate(cfg).ok
            /\ \E t \in Instants : probe = InWindowProbe(cfg, t)

NextPure == ApplyValidate \/ ApplyInWindow

SpecPure == InitPure /\ [][NextPure]_vars

-----------------------------------------------------------------------------
(* Properties                                                              *)

\* The second of its calendar day, in its Location, that instant t shows.
SecondOfDay(t) == (t.sec + t.off) % 86400

\* The second of the day that a parsed clock value names.
ClockSecond(p) == p.hour * 3600 + p.min * 60 + p.sec

\* A finished call of inWindow, of Validate.
WindowDone == probe.kind = "inWindow" /\ probe.done

ValidateDone == probe.kind = "Validate" /\ probe.done

\* Daily mode as inWindow tests it: both hours set.
DailyMode(cfg) == cfg.StartHours # <<>> /\ cfg.EndHours # <<>>

\* C1: an Image call whose extra is nil, lacks fromDataManagement or holds
\* another value than boolean true for it always calls the inner camera's
\* Image once and returns its result; the window is not evaluated and the
\* wrapper does not return ErrNoCapture of its own.
C1_UnmarkedImageDelegates ==
    (/\ img.pc = "done"
     /\ \/ img.extra.nil
        \/ "fromDataManagement" \notin DOMAIN img.extra.m
        \/ img.extra.m["fromDataManagement"] # "bool:true")
    => /\ ~img.gated
       /\ img.seen = {}
       /\ img.innerCalls = 1
       /\ img.ret.kind = "returned"
       /\ img.ret = img.innerRet

\* C2: an Image call with fromDataManagement == true returns ErrNoCapture, no
\* image and no call of the inner camera exactly when inWindow(now) is false;
\* when it is true the inner camera's Image is called once and its result is
\* returned as it is.
C2_MarkedImageGated ==
    (/\ img.pc = "done"
     /\ ~img.extra.nil
     /\ "fromDataManagement" \in DOMAIN img.extra.m
     /\ img.extra.m["fromDataManagement"] = "bool:true")
    => /\ img.gated
       /\ (img.ret = RetNoCapture /\ img.innerCalls = 0) <=> ~img.inWin
       /\ img.inWin => /\ img.innerCalls = 1
                       /\ img.ret.kind = "returned"
                       /\ img.ret = img.innerRet

\* Instant t, by the clock of its Location, is not after second b of its day.
UpToClock(t, b) ==
    SecondOfDay(t) < b \/ (SecondOfDay(t) = b /\ t.nsec = 0)

\* a is not after b in absolute time.
NotLater(a, b) ==
    \/ a.day < b.day
    \/ a.day = b.day /\ a.sec < b.sec
    \/ a.day = b.day /\ a.sec = b.sec /\ a.nsec <= b.nsec

\* C3: in daily mode with start_hours not later than end_hours, inWindow(t)
\* is true exactly when t's time of day lies between the two, both ends
\* included (start and end being anchored to t's own date and location).
C3_DailyWindowInclusive ==
    (WindowDone /\ DailyMode(probe.cfg)) =>
        LET a == ClockSecond(ParseHHMM(probe.cfg.StartHours))
            b == ClockSecond(ParseHHMM(probe.cfg.EndHours))
            x == SecondOfDay(probe.t)
        IN  a <= b => (probe.w <=> (a <= x /\ UpToClock(probe.t, b)))

\* 08:00-18:00 evaluated at 18:00:00 sharp: in the window.
C3_Witness ==
    /\ WindowDone
    /\ probe.cfg.StartHours = HHMM(8, 0)
    /\ probe.cfg.EndHours = HHMM(18, 0)
    /\ SecondOfDay(probe.t) = 18 * 3600
    /\ probe.t.nsec = 0
    /\ probe.w

\* C4: in daily mode with start_hours later than end_hours the window spans
\* midnight: inWindow(t) is true for the times of day from start on (23:00
\* for 22:00-06:00) and for those up to end (02:00), and false in between
\* (12:00).
C4_OvernightWindow ==
    (WindowDone /\ DailyMode(probe.cfg)) =>
        LET a == ClockSecond(ParseHHMM(probe.cfg.StartHours))
            b == ClockSecond(ParseHHMM(probe.cfg.EndHours))
            x == SecondOfDay(probe.t)
        IN  a > b => (probe.w <=> (x >= a \/ UpToClock(probe.t, b)))

\* C5: with only schedule populated, inWindow(t) is true exactly when some
\* listed range has start <= t <= end.
C5_ScheduleInclusive ==
    (/\ WindowDone
     /\ ~DailyMode(probe.cfg)
     /\ DOMAIN probe.cfg.WeeklySchedule = {}
     /\ Len(probe.cfg.Schedule) > 0)
    => (probe.w <=>
          \E i \in 1..Len(probe.cfg.Schedule) :
              /\ NotLater(ParseRFC3339(probe.cfg.Schedule[i].Start).t, probe.t)
              /\ NotLater(probe.t, ParseRFC3339(probe.cfg.Schedule[i].End).t))

\* The only range 2024-01-01T00:00:00Z..2024-01-02T00:00:00Z at its very end.
C5_Witness ==
    /\ WindowDone
    /\ ~DailyMode(probe.cfg)
    /\ DOMAIN probe.cfg.WeeklySchedule = {}
    /\ probe.cfg.Schedule = <<RangeJan1>>
    /\ NotLater(probe.t, ParseRFC3339(RangeJan1.End).t)
    /\ NotLater(ParseRFC3339(RangeJan1.End).t, probe.t)
    /\ probe.w

\* The schedule variants a configuration populates: daily (both hours set),
\* weekly (a non-empty map), schedule (a non-empty list).
Populated(cfg) ==
    (IF DailyMode(cfg) THEN {"daily"} ELSE {})
    \cup (IF DOMAIN cfg.WeeklySchedule # {} THEN {"weekly"} ELSE {})
    \cup (IF Len(cfg.Schedule) > 0 THEN {"schedule"} ELSE {})

\* C6: Validate accepts a configuration only if exactly one of the three
\* schedule variants is populated; with two or three populated, or none, it
\* returns an error.
C6_ExactlyOneVariant ==
    (ValidateDone /\ probe.v.ok) => Cardinality(Populated(probe.cfg)) = 1

\* The text s has the form HH:MM:SS: two digits below 24, ':', two digits
\* below 60, ':', two digits below 60, and nothing else.
IsHHMMSS(s) ==
    /\ Len(s) = 8
    /\ \A i \in {1, 2, 4, 5, 7, 8} : IsDigit(s[i])
    /\ s[3] = ":" /\ s[6] = ":"
    /\ Num(s, 1, 2) < 24 /\ Num(s, 4, 2) < 60 /\ Num(s, 7, 2) < 60

\* C7: with weekly_schedule non-empty, Validate returns an error whenever
\* one of mon..sun is absent, or present with a start or end that is empty
\* or not of the form HH:MM:SS; when all seven are present and of that form
\* it returns no error about the weekly schedule.
C7_WeeklyNeedsSevenDays ==
    (ValidateDone /\ DOMAIN probe.cfg.WeeklySchedule # {}) =>
        LET w == probe.cfg.WeeklySchedule
            bad == {d \in {"mon", "tue", "wed", "thu", "fri", "sat", "sun"} :
                      \/ d \notin DOMAIN w
                      \/ ~IsHHMMSS(w[d].Start)
                      \/ ~IsHHMMSS(w[d].End)}
            weeklyErrors == {"weekly_missing", "weekly_empty",
                             "weekly_bad_start", "weekly_bad_end"}
        IN  /\ bad # {} => ~probe.v.ok
            /\ bad = {} => probe.v.err \notin weeklyErrors

\* A call whose configuration converts and validates but names a camera
\* that its dependencies do not hold.
Unresolvable(raw, deps) ==
    /\ raw.parseOk
    /\ Validate(raw.conf).ok
    /\ raw.conf.Camera \notin deps

\* C8: a Reconfigure whose new configuration is valid but names an inner
\* camera that the dependencies do not resolve returns an error; so does
\* the constructor, and it then leaves no instance.
C8_UnresolvedCameraIsAnError ==
    /\ (rc.pc = "done" /\ Unresolvable(rc.raw, rc.deps)) => rc.err # ""
    /\ (cam.ctor.called /\ Unresolvable(cam.ctor.raw, cam.ctor.deps))
         => (cam.ctor.err # "" /\ ~cam.exists)

\* Reconfigure has returned from a valid configuration naming cam2, handed
\* dependencies that hold cam1 only.
C8_Witness ==
    /\ rc.pc = "done"
    /\ Unresolvable(rc.raw, rc.deps)
    /\ rc.raw.conf.Camera = "cam2"
    /\ rc.err = "resource_not_found"

\* The (configuration, inner camera) pairs of an undisturbed wrapper: those
\* it held between Reconfigure calls, and the one that the Reconfigure now
\* assigning its fields will have made.
WholePairs ==
    cam.settled
    \cup (IF rc.pc \in {"l171", "l172", "l173"}
          THEN {[cfg |-> rc.raw.conf,
                 inner |-> FromDependencies(rc.deps, rc.raw.conf.Camera).cam]}
          ELSE {})

\* C9: an Image call that runs the gate and delegates never sees a partly
\* applied Reconfigure: the configuration its gate read and the inner camera
\* it called are the pair from before a Reconfigure or the pair from after.
C9_NoPartialReconfigure ==
    (img.pc = "done" /\ img.gated /\ img.inWin) =>
        \E p \in WholePairs : img.seen = {p.cfg} /\ img.inner = p.inner

\* C10: one window evaluation takes its start and its end from one
\* configuration: the camera's inWindow in its daily branch, and the
\* sensor's Readings.
C10_StartAndEndOfOneConfig ==
    /\ (img.sh # <<>> /\ img.eh # <<>>) =>
          \E c \in cam.held : img.sh = c.StartHours /\ img.eh = c.EndHours
    /\ (rd.pc = "done" /\ rd.out.err = "") =>
          \E c \in sen.held : rd.sh = c.StartHours /\ rd.eh = c.EndHours

\* The time.Parse calls Validate makes on a configuration it accepts: the
\* hours when both are set, the entries of the seven days of its list when
\* the map is not empty (other keys of the map are not looked at), every
\* range of the list.
Checked(cfg) ==
    (IF hoursSet(cfg)
     THEN {Parse("15:04", cfg.StartHours), Parse("15:04", cfg.EndHours)} ELSE {})
    \cup (IF weeklySet(cfg)
          THEN UNION {EntryParsed(cfg.WeeklySchedule[WeeklyDays[i]]) :
                         i \in {j \in 1..7 :
                                   WeeklyDays[j] \in DOMAIN cfg.WeeklySchedule}}
          ELSE {})
    \cup UNION {{Parse("RFC3339", cfg.Schedule[i].Start),
                 Parse("RFC3339", cfg.Schedule[i].End)} :
                   i \in 1..Len(cfg.Schedule)}

\* C11: whatever constructor and Reconfigure calls have run, every
\* configuration the wrapper has held is one Validate accepted, every string
\* inWindow has parsed is one Validate parsed for a held configuration, and
\* no parse inside inWindow has failed.
C11_NoParseFailsInWindow ==
    /\ \A c \in cam.held : Validate(c).ok
    /\ \A p \in img.parsed :
          /\ \E c \in cam.held : p \in Checked(c)
          /\ ParseOk(p)

\* t lies within at least one window of the configuration, over all of its
\* populated modes.
InSomeWindow(cfg, t) ==
    \/ DailyMode(cfg) /\ DailyWindow(cfg.StartHours, cfg.EndHours, t)
    \/ /\ WeekdayKey(t) \in DOMAIN cfg.WeeklySchedule
       /\ WeeklyWindow(cfg.WeeklySchedule[WeekdayKey(t)], t)
    \/ ScheduleWindow(cfg.Schedule, t)

\* C12: for every configuration Validate accepts and every instant t,
\* inWindow(t) is true exactly when t lies within at least one configured
\* window, over all populated modes; with daily hours and a schedule both
\* set, an instant inside a range but outside the hours is in-window.
C12_InAnyConfiguredWindow ==
    WindowDone => (probe.w <=> InSomeWindow(probe.cfg, probe.t))

\* Weekly mode as inWindow reaches it: the map is not empty and the hours
\* are not both set.
WeeklyMode(cfg) == Cardinality(DOMAIN cfg.WeeklySchedule) > 0 /\ ~DailyMode(cfg)

\* C13: in weekly mode inWindow(t) is the window of the entry keyed by t's
\* weekday and nothing else, and it is false whenever the map has no entry
\* for that weekday, even if a range of the schedule list covers t.  For a
\* call of Image: once inWindow has taken the weekly branch (line 208), its
\* result is the window of the entry that line 210 found, and false if line
\* 210 found none.
C13_WeeklyEntryAloneDecides ==
    /\ (WindowDone /\ WeeklyMode(probe.cfg)) =>
          (probe.w <=>
              /\ WeekdayKey(probe.t) \in DOMAIN probe.cfg.WeeklySchedule
              /\ WeeklyWindow(probe.cfg.WeeklySchedule[WeekdayKey(probe.t)], probe.t))
    /\ (img.pc = "done" /\ img.gated /\ img.day.looked) =>
          (img.inWin <=> (img.day.ok /\ WeeklyWindow(img.day.sh, img.now)))

-----------------------------------------------------------------------------
(* The earlier camera wrapper of src/unnamed/part_000: hours only, gating  *)
(* in the stream's Next, no Validate call in constructor or Reconfigure.   *)
(* It runs on the same variables: cam is the wrapper (inner its field      *)
(* cam), rc a Reconfigure call, img a Stream().Next() call.                *)

\* Config.Validate of that file.
HoursValidate(cfg) ==
    IF cfg.Camera = "" THEN "camera_required"
    ELSE IF cfg.StartHours = <<>> \/ cfg.EndHours = <<>> THEN "hours_required"
    ELSE IF ~ParseHHMM(cfg.StartHours).ok THEN "bad_start_hours"
    ELSE IF ~ParseHHMM(cfg.EndHours).ok THEN "bad_end_hours"
    ELSE ""

\* timedStream.Next, lines 165-191, from the two strings it reads and
\* currentTime.  [err, inRange, overnight]
NextGate(sh, eh, t) ==
    LET ps == ParseHHMM(sh)
        pe == ParseHHMM(eh)
        startTime == Date(t, ps.hour, ps.min, 0)
        end0      == Date(t, pe.hour, pe.min, 0)
        overnight == After(startTime, end0)
        endTime   == IF overnight THEN Add24h(end0) ELSE end0
    IN  IF ~ps.ok THEN [err |-> "bad_start_time", inRange |-> FALSE, overnight |-> FALSE]
        ELSE IF ~pe.ok THEN [err |-> "bad_end_time", inRange |-> FALSE, overnight |-> FALSE]
        ELSE [err |-> "", inRange |-> ~Before(t, startTime) /\ ~After(t, endTime),
              overnight |-> overnight]

\* A configuration whose start_hours no layout reads; only Validate, which
\* these methods do not call, would refuse it.
CfgBadHours == MkConfig("cam1", HHMM(24, 0), HHMM(18, 0), <<>>, <<>>)

HoursRawConfs ==
    {RawConf(TRUE, "timed", c) : c \in {CfgDay, CfgNight, CfgBadHours}}
    \cup {RawConf(FALSE, "timed", NoConfig)}

\* newtimedCamera(ctx, deps, rawConf, logger)
newtimedCamera(raw, deps) ==
    /\ ~cam.exists
    /\ calls < MaxCalls
    /\ calls' = calls + 1
    /\ LET r   == FromDependencies(deps, raw.conf.Camera)
           err == IF ~raw.parseOk THEN "unexpected_config_type" ELSE r.err
           ctor == [called |-> TRUE, raw |-> raw, deps |-> deps, err |-> err]
       IN  cam' = IF err # ""
                  THEN [cam EXCEPT !.ctor = ctor]
                  ELSE [exists |-> TRUE, cfg |-> raw.conf, name |-> raw.name,
                        inner |-> r.cam, ctor |-> ctor, held |-> {raw.conf},
                        settled |-> {[cfg |-> raw.conf, inner |-> r.cam]}]
    /\ UNCHANGED <<rc, img, sen, src, rd, probe>>

\* Reconfigure, lines 94-98: resource.NativeConfig
Reconfigure94(raw, deps) ==
    /\ cam.exists
    /\ rc.pc = "idle"
    /\ calls < MaxCalls
    /\ calls' = calls + 1
    /\ rc' = [pc |-> IF raw.parseOk THEN "l100" ELSE "done",
              raw |-> raw, deps |-> deps,
              err |-> IF raw.parseOk THEN "" ELSE "unexpected_config_type",
              pre |-> Fields(cam)]
    /\ UNCHANGED <<cam, img, sen, src, rd, probe>>

\* c.name = conf.ResourceName()
Reconfigure100 ==
    /\ rc.pc = "l100"
    /\ cam' = [cam EXCEPT !.name = rc.raw.name]
    /\ rc' = [rc EXCEPT !.pc = "l101"]
    /\ UNCHANGED <<img, sen, src, rd, calls, probe>>

\* c.cfg = newConfig
Reconfigure101 ==
    /\ rc.pc = "l101"
    /\ cam' = [cam EXCEPT !.cfg = rc.raw.conf, !.held = @ \cup {rc.raw.conf}]
    /\ rc' = [rc EXCEPT !.pc = "l104"]
    /\ UNCHANGED <<img, sen, src, rd, calls, probe>>

\* lines 104-111: camera.FromDependencies; on an error return it and leave
\* c.cam, else c.cam = cam and return nil.
Reconfigure104 ==
    /\ rc.pc = "l104"
    /\ LET r == FromDependencies(rc.deps, rc.raw.conf.Camera)
           inner == IF r.err # "" THEN cam.inner ELSE r.cam
       IN  /\ cam' = [cam EXCEPT !.inner = inner,
                                 !.settled = @ \cup {[cfg |-> cam.cfg, inner |-> inner]}]
           /\ rc' = [rc EXCEPT !.pc = "done", !.err = r.err]
    /\ UNCHANGED <<img, sen, src, rd, calls, probe>>

\* Stream, lines 136-142: cameraStream, err := c.cam.Stream(...).  On an
\* error it returns it and no stream; else the timedStream holds the stream
\* of the camera that c.cam was at this call (img.inner), whatever
\* Reconfigure stores in c.cam later.
Stream ==
    /\ cam.exists
    /\ img.pc = "idle"
    /\ calls < MaxCalls
    /\ calls' = calls + 1
    /\ \E e \in InnerErrors :
         img' = IF e # ""
                THEN [NoImage EXCEPT !.pc = "done", !.ret = Ret("returned", "", e)]
                ELSE [NoImage EXCEPT !.pc = "open", !.inner = cam.inner]
    /\ UNCHANGED <<cam, rc, sen, src, rd, probe>>

\* timedStream.Next on the stream held, lines 150-163: the marker test and
\* time.Now().
Next150(extra) ==
    /\ img.pc = "open"
    /\ IF fromDataManagement(extra)
       THEN \E now \in MachineInstants :
                img' = [NoImage EXCEPT !.pc = "n166", !.extra = extra,
                                       !.now = now, !.gated = TRUE,
                                       !.inner = img.inner]
       ELSE img' = [NoImage EXCEPT !.pc = "n199", !.extra = extra,
                                   !.inner = img.inner]
    /\ UNCHANGED <<cam, rc, sen, src, rd, calls, probe>>

\* Next has returned: the caller still holds the stream and may call Next
\* on it again.
NextReturn ==
    /\ img.pc = "done"
    /\ img.inner # Nil
    /\ img' = [NoImage EXCEPT !.pc = "open", !.inner = img.inner]
    /\ UNCHANGED <<cam, rc, sen, src, rd, calls, probe>>

\* lines 166-170: time.Parse("15:04", ts.c.cfg.StartHours)
Next166 ==
    /\ img.pc = "n166"
    /\ img' = [img EXCEPT
                 !.pc = IF ParseHHMM(cam.cfg.StartHours).ok THEN "n171" ELSE "done",
                 !.sh = cam.cfg.StartHours,
                 !.seen = @ \cup {cam.cfg},
                 !.parsed = @ \cup {Parse("15:04", cam.cfg.StartHours)},
                 !.ret = IF ParseHHMM(cam.cfg.StartHours).ok THEN NoRet
                         ELSE Ret("returned", "", "bad_start_time")]
    /\ UNCHANGED <<cam, rc, sen, src, rd, calls, probe>>

\* lines 171-197: ts.c.cfg.EndHours, the range, and the return when the
\* time is outside it.
Next171 ==
    /\ img.pc = "n171"
    /\ LET g == NextGate(img.sh, cam.cfg.EndHours, img.now)
       IN  img' = [img EXCEPT
                     !.pc = IF g.err = "" /\ g.inRange THEN "n199" ELSE "done",
                     !.eh = cam.cfg.EndHours,
                     !.seen = @ \cup {cam.cfg},
                     !.parsed = @ \cup {Parse("15:04", cam.cfg.EndHours)},
                     !.inWin = g.inRange,
                     !.ret = IF g.err # "" THEN Ret("returned", "", g.err)
                             ELSE IF ~g.inRange THEN RetNoCapture
                             ELSE NoRet]
    /\ UNCHANGED <<cam, rc, sen, src, rd, calls, probe>>

\* lines 199-206: ts.cameraStream.Next(ctx)
NextDelegate ==
    /\ img.pc = "n199"
    /\ \E e \in InnerErrors :
         img' = [img EXCEPT !.pc = "done",
                            !.innerCalls = @ + 1,
                            !.innerRet = InnerImage(img.inner, e),
                            !.ret = InnerImage(img.inner, e)]
    /\ UNCHANGED <<cam, rc, sen, src, rd, calls, probe>>

NextHours ==
    \/ \E raw \in HoursRawConfs, deps \in DepSets : newtimedCamera(raw, deps)
    \/ \E raw \in HoursRawConfs, deps \in DepSets : Reconfigure94(raw, deps)
    \/ Reconfigure100
    \/ Reconfigure101
    \/ Reconfigure104
    \/ ReconfigureReturn
    \/ Stream
    \/ \E extra \in Extras : Next150(extra)
    \/ NextReturn
    \/ Next166
    \/ Next171
    \/ NextDelegate
    \/ ImageReturn

SpecHours == Init /\ [][NextHours]_vars

-----------------------------------------------------------------------------
(* The sensor's Readings, the camera's daily inWindow and the earlier      *)
(* wrapper's gate in Next on the same pair of hours and the same instant.  *)

\* s.Readings(ctx, extra) with s.cfg the probe's hours and time.Now() the
\* probe's instant.
ApplyReadings ==
    /\ probe.kind = "inWindow"
    /\ rd.pc = "idle"
    /\ rd' = [rd EXCEPT !.pc = "done", !.now = probe.t,
                        !.sh = probe.cfg.StartHours, !.eh = probe.cfg.EndHours,
                        !.out = Readings(probe.cfg.StartHours,
                                         probe.cfg.EndHours, probe.t)]
    /\ UNCHANGED <<cam, rc, img, sen, src, calls, probe>>

\* The gate of timedStream.Next for a request of the data manager, with
\* ts.c.cfg the probe's hours and time.Now() the probe's instant.
ApplyNextGate ==
    /\ probe.kind = "inWindow"
    /\ img.pc = "idle"
    /\ LET g == NextGate(probe.cfg.StartHours, probe.cfg.EndHours, probe.t)
       IN  img' = [NoImage EXCEPT
                     !.pc = "done", !.now = probe.t, !.gated = TRUE,
                     !.sh = probe.cfg.StartHours, !.eh = probe.cfg.EndHours,
                     !.inWin = g.inRange,
                     !.ret = IF g.err # "" THEN Ret("returned", "", g.err)
                             ELSE IF ~g.inRange THEN RetNoCapture
                             ELSE NoRet]
    /\ UNCHANGED <<cam, rc, sen, src, rd, calls, probe>>

\* Pairs of hours that the components' Validate accept.
DailyPairs ==
    {MkSensorConfig(sh, eh) : sh \in GoodHours, eh \in GoodHours}

InitDaily ==
    /\ cam = NoCamera
    /\ rc = NoReconfigure
    /\ img = NoImage
    /\ sen = NoSensor
    /\ src = NoSensorReconfigure
    /\ rd = NoReadingsCall
    /\ calls = 0
    /\ \E p \in DailyPairs, t \in Instants :
          /\ SensorValidate(p) = ""
          /\ HoursValidate(MkConfig("cam1", p.StartHours, p.EndHours, <<>>, <<>>)) = ""
          /\ Validate(MkConfig("cam1", p.StartHours, p.EndHours, <<>>, <<>>)).ok
          /\ probe = InWindowProbe(
                MkConfig("cam1", p.StartHours, p.EndHours, <<>>, <<>>), t)

NextDaily == ApplyInWindow \/ ApplyReadings \/ ApplyNextGate

SpecDaily == InitDaily /\ [][NextDaily]_vars

\* Both components have answered for the same hours and instant.
BothDone == probe.kind = "inWindow" /\ probe.done /\ rd.pc = "done"

\* C14: for every instant and every valid pair of daily hours, the sensor's
\* should_sync equals the camera's daily-mode inWindow, and
\* overnight_time_range is true exactly when the start anchored to the
\* instant's date is after the end anchored to it; the gate of the earlier
\* wrapper's Next lets through exactly the same instants.
C14_ReadingsMatchesDailyWindow ==
    /\ BothDone =>
          /\ rd.out.err = ""
          /\ rd.out.should_sync = probe.w
          /\ rd.out.overnight_time_range =
                After(Date(probe.t, ParseHHMM(probe.cfg.StartHours).hour,
                           ParseHHMM(probe.cfg.StartHours).min, 0),
                      Date(probe.t, ParseHHMM(probe.cfg.EndHours).hour,
                           ParseHHMM(probe.cfg.EndHours).min, 0))
    /\ (probe.kind = "inWindow" /\ probe.done /\ img.pc = "done") =>
          /\ img.inWin = probe.w
          /\ img.ret = (IF probe.w THEN NoRet ELSE RetNoCapture)

\* An overnight pair at an instant after its start: both say in-window.
C14_Witness ==
    /\ BothDone
    /\ ClockSecond(ParseHHMM(probe.cfg.StartHours))
         > ClockSecond(ParseHHMM(probe.cfg.EndHours))
    /\ rd.out.overnight_time_range
    /\ rd.out.should_sync
    /\ probe.w

\* C15: a Reconfigure call that returns an error, whether NativeConfig,
\* Validate or the resolution of the inner camera failed, leaves c.cfg,
\* c.name and c.inner (c.cam in the earlier wrapper) as they were when it
\* was called.
C15_FailedReconfigureChangesNothing ==
    (rc.pc = "done" /\ rc.err # "") => Fields(cam) = rc.pre

=============================================================================
